---- MODULE Spec2Model ----
(* A model of src/req/github_repo_analyzer.py: the URL parser, the          *)
(* recursive repository scan, the relevance filter, the content fetcher,    *)
(* the dependency extractor and the summarizer with its output file.        *)
(* Python strings are sequences of one-character strings.                   *)
EXTENDS Integers, Sequences, FiniteSets, TLC

\* the element of a one-element set; The({e : x \in {v}}) is e with the local
\* variable x holding the value of v, computed once
The(S) == CHOOSE r \in S : TRUE

\* ------------------------------------------------------------------------
\* Python str operations used by the source
\* ------------------------------------------------------------------------

\* s[i-1:] begins with p (str.startswith at an offset; re literal match)
StartsWithAt(s, i, p) ==
    /\ i >= 1
    /\ i + Len(p) - 1 <= Len(s)
    /\ \A k \in 1..Len(p) : s[i + k - 1] = p[k]

\* str.startswith
StartsWith(s, p) == StartsWithAt(s, 1, p)

\* str.endswith
EndsWith(s, p) == StartsWithAt(s, Len(s) - Len(p) + 1, p)

\* the characters str.strip() removes
Whitespace == {" ", "\t", "\n", "\r"}

\* str.strip()
Strip(s) ==
    LET keep == {i \in 1..Len(s) : s[i] \notin Whitespace}
    IN  IF keep = {} THEN <<>>
        ELSE LET lo == CHOOSE i \in keep : \A j \in keep : i <= j
                 hi == CHOOSE i \in keep : \A j \in keep : i >= j
             IN  SubSeq(s, lo, hi)

\* str.find(sep, start): least index >= from where sep occurs, 0 if none
Find(s, sep, from) ==
    LET hits == {i \in from..Len(s) : StartsWithAt(s, i, sep)}
    IN  IF hits = {} THEN 0 ELSE CHOOSE i \in hits : \A j \in hits : i <= j

\* str.split(sep): left to right, non-overlapping occurrences of sep
RECURSIVE Split(_, _)
Split(s, sep) ==
    LET i == Find(s, sep, 1)
    IN  IF i = 0 THEN <<s>>
        ELSE <<SubSeq(s, 1, i - 1)>> \o Split(SubSeq(s, i + Len(sep), Len(s)), sep)

\* str.replace(ch, ''): every occurrence of the character ch is removed
RemoveAll(s, ch) == SelectSeq(s, LAMBDA c : c # ch)

\* ------------------------------------------------------------------------
\* parse_github_url
\* ------------------------------------------------------------------------

\* length of the longest run of characters outside `excluded` starting at i
\* (a greedy negated character class, [^...]+)
RECURSIVE RunLen(_, _, _)
RunLen(s, i, excluded) ==
    IF i > Len(s) \/ s[i] \in excluded THEN 0
    ELSE 1 + RunLen(s, i + 1, excluded)

SshPattern == <<"g", "i", "t", "@", "g", "i", "t", "h", "u", "b", ".", "c", "o", "m", ":">>  \* git@github.com:
HttpsPattern == <<"g", "i", "t", "h", "u", "b", ".", "c", "o", "m", "/">>  \* github.com/

\* the pattern  <literal>([^/]+)/([^/.]+)  matched at position i
MatchAt(s, i, literal) ==
    LET j  == i + Len(literal)
        n1 == RunLen(s, j, {"/"})
        k  == j + n1
        n2 == RunLen(s, k + 1, {"/", "."})
    IN  IF /\ StartsWithAt(s, i, literal)
           /\ n1 >= 1
           /\ k <= Len(s)
           /\ s[k] = "/"
           /\ n2 >= 1
        THEN [ok |-> TRUE, group1 |-> SubSeq(s, j, k - 1),
              group2 |-> SubSeq(s, k + 1, k + n2)]
        ELSE [ok |-> FALSE, group1 |-> <<>>, group2 |-> <<>>]

\* re.search: the leftmost position where the pattern matches
re_search(literal, s) ==
    LET hits == {i \in 1..Len(s) : MatchAt(s, i, literal).ok}
    IN  IF hits = {} THEN [ok |-> FALSE, group1 |-> <<>>, group2 |-> <<>>]
        ELSE MatchAt(s, CHOOSE i \in hits : \A j \in hits : i <= j, literal)

\* parse_github_url(url): ok = FALSE stands for ValueError("Invalid GitHub URL")
parse_github_url(url) ==
    LET pattern == IF StartsWith(url, <<"g", "i", "t", "@">>) THEN SshPattern ELSE HttpsPattern  \* git@
        match   == re_search(pattern, url)
    IN  IF ~match.ok THEN [ok |-> FALSE, owner |-> <<>>, repo |-> <<>>]
        ELSE [ok |-> TRUE, owner |-> match.group1, repo |-> match.group2]

\* ------------------------------------------------------------------------
\* json.loads, for the JSON subset the manifests below use: objects, arrays,
\* strings without escape sequences, integers, null/true/false, whitespace.
\* A Python value is a record [kind, str, items]; items holds the ordered
\* (key, value) pairs of a dict or the elements of a list.
\* ------------------------------------------------------------------------
PyNone == [kind |-> "None", str |-> <<>>, items |-> <<>>]
PyBool(lit) == [kind |-> "bool", str |-> lit, items |-> <<>>]
PyInt(digits) == [kind |-> "int", str |-> digits, items |-> <<>>]
PyStr(chars) == [kind |-> "str", str |-> chars, items |-> <<>>]
PyList(elems) == [kind |-> "list", str |-> <<>>, items |-> elems]
PyDict(members) == [kind |-> "dict", str |-> <<>>, items |-> members]

Digits == {"0", "1", "2", "3", "4", "5", "6", "7", "8", "9"}

\* a failed parse: json.JSONDecodeError
JsonFail == [ok |-> FALSE, val |-> PyNone, next |-> 0]
JsonOk(v, n) == [ok |-> TRUE, val |-> v, next |-> n]

\* index of the first non-whitespace character at or after i
RECURSIVE SkipWs(_, _)
SkipWs(s, i) == IF i <= Len(s) /\ s[i] \in Whitespace THEN SkipWs(s, i + 1) ELSE i

\* number of digits starting at i
RECURSIVE DigitRun(_, _)
DigitRun(s, i) == IF i <= Len(s) /\ s[i] \in Digits THEN 1 + DigitRun(s, i + 1) ELSE 0

\* dict[key] = val: a repeated key keeps its first position and takes the last value
DictSet(members, key, val) ==
    IF \E k \in 1..Len(members) : members[k].key = key
    THEN [k \in 1..Len(members) |->
            IF members[k].key = key THEN [key |-> key, val |-> val] ELSE members[k]]
    ELSE Append(members, [key |-> key, val |-> val])

\* a JSON string starting at the quote at i
ParseString(s, i) ==
    The({ IF j = 0 THEN JsonFail
          ELSE IF \E k \in (i + 1)..(j - 1) : s[k] \in {"\n", "\t", "\r", "\\"} THEN JsonFail
          ELSE JsonOk(PyStr(SubSeq(s, i + 1, j - 1)), j + 1)
          : j \in {Find(s, <<"\"">>, i + 1)} })

\* a JSON integer starting at i
ParseNumber(s, i) ==
    LET d == IF s[i] = "-" THEN i + 1 ELSE i
        n == IF d <= Len(s) /\ s[d] = "0" THEN 1 ELSE DigitRun(s, d)
    IN  IF n = 0 THEN JsonFail ELSE JsonOk(PyInt(SubSeq(s, i, d + n - 1)), d + n)

\* what follows an element or member that ended before i: the closing
\* bracket `close`, a comma, or an error; next is the index after it
AfterItem(s, i, close) ==
    The({ IF e > Len(s) THEN [kind |-> "error", next |-> 0]
          ELSE IF s[e] = close THEN [kind |-> "close", next |-> e + 1]
          ELSE IF s[e] = "," THEN [kind |-> "comma", next |-> e + 1]
          ELSE [kind |-> "error", next |-> 0]
          : e \in {SkipWs(s, i)} })

RECURSIVE ParseValue(_, _)
RECURSIVE ParseElements(_, _, _)
RECURSIVE ParseMembers(_, _, _)

\* the elements of an array, the first of them starting at i
ParseElements(s, i, acc) ==
    The({ IF ~v.ok THEN JsonFail
          ELSE The({ IF after.kind = "close" THEN JsonOk(PyList(elems), after.next)
                     ELSE IF after.kind = "comma" THEN ParseElements(s, after.next, elems)
                     ELSE JsonFail
                     : after \in {AfterItem(s, v.next, "]")},
                       elems \in {Append(acc, [key |-> <<>>, val |-> v.val])} })
          : v \in {ParseValue(s, i)} })

\* the value of the member named key, and the members after it
ParseMemberValue(s, i, key, acc) ==
    The({ IF ~v.ok THEN JsonFail
          ELSE The({ IF after.kind = "close" THEN JsonOk(PyDict(members), after.next)
                     ELSE IF after.kind = "comma"
                     THEN ParseMembers(s, SkipWs(s, after.next), members)
                     ELSE JsonFail
                     : after \in {AfterItem(s, v.next, "}")},
                       members \in {DictSet(acc, key, v.val)} })
          : v \in {ParseValue(s, i)} })

\* the members of an object, the first key's quote expected at i
ParseMembers(s, i, acc) ==
    IF i > Len(s) \/ s[i] # "\"" THEN JsonFail
    ELSE The({ IF ~key.ok THEN JsonFail
               ELSE The({ IF c > Len(s) \/ s[c] # ":" THEN JsonFail
                          ELSE ParseMemberValue(s, c + 1, key.val.str, acc)
                          : c \in {SkipWs(s, key.next)} })
               : key \in {ParseString(s, i)} })

\* an object or array whose opening bracket is at i - 1
ParseCollection(s, i, close) ==
    The({ IF k <= Len(s) /\ s[k] = close
          THEN JsonOk(IF close = "}" THEN PyDict(<<>>) ELSE PyList(<<>>), k + 1)
          ELSE IF close = "}" THEN ParseMembers(s, k, <<>>)
          ELSE ParseElements(s, k, <<>>)
          : k \in {SkipWs(s, i)} })

\* one JSON value, after optional whitespace from i0
ParseValue(s, i0) ==
    The({ IF i > Len(s) THEN JsonFail
          ELSE IF s[i] = "\"" THEN ParseString(s, i)
          ELSE IF s[i] = "{" THEN ParseCollection(s, i + 1, "}")
          ELSE IF s[i] = "[" THEN ParseCollection(s, i + 1, "]")
          ELSE IF StartsWithAt(s, i, <<"n", "u", "l", "l">>) THEN JsonOk(PyNone, i + 4)  \* null
          ELSE IF StartsWithAt(s, i, <<"t", "r", "u", "e">>) THEN JsonOk(PyBool(<<"t", "r", "u", "e">>), i + 4)  \* true  true
          ELSE IF StartsWithAt(s, i, <<"f", "a", "l", "s", "e">>) THEN JsonOk(PyBool(<<"f", "a", "l", "s", "e">>), i + 5)  \* false  false
          ELSE IF s[i] = "-" \/ s[i] \in Digits THEN ParseNumber(s, i)
          ELSE JsonFail
          : i \in {SkipWs(s, i0)} })

\* json.loads(s): one value and nothing but whitespace after it
json_loads(s) ==
    The({ IF v.ok /\ SkipWs(s, v.next) > Len(s) THEN v ELSE JsonFail
          : v \in {ParseValue(s, 1)} })

\* ------------------------------------------------------------------------
\* files_data: a Python dict from file name to text, as the ordered sequence
\* of its [name, text] items
\* ------------------------------------------------------------------------
HasKey(files_data, name) == \E k \in 1..Len(files_data) : files_data[k].name = name

Lookup(files_data, name) ==
    files_data[CHOOSE k \in 1..Len(files_data) : files_data[k].name = name].text

\* files_data[name] = text: a name already present keeps its position
SetItem(files_data, name, text) ==
    IF HasKey(files_data, name)
    THEN [k \in 1..Len(files_data) |->
            IF files_data[k].name = name THEN [name |-> name, text |-> text]
            ELSE files_data[k]]
    ELSE Append(files_data, [name |-> name, text |-> text])

PackageJson == <<"p", "a", "c", "k", "a", "g", "e", ".", "j", "s", "o", "n">>  \* package.json
RequirementsTxt == <<"r", "e", "q", "u", "i", "r", "e", "m", "e", "n", "t", "s", ".", "t", "x", "t">>  \* requirements.txt
DependenciesKey == <<"d", "e", "p", "e", "n", "d", "e", "n", "c", "i", "e", "s">>  \* dependencies

\* ------------------------------------------------------------------------
\* extract_dependencies
\* ------------------------------------------------------------------------
FrontendDescription == "Used in the frontend. Part of the React/Node.js ecosystem."
BackendDescription == "Used in the Python backend/agent system."

\* the Python expression  key in container : "True", "False" or "TypeError"
PyIn(key, container) ==
    IF container.kind = "dict"
    THEN IF \E k \in 1..Len(container.items) : container.items[k].key = key
         THEN "True" ELSE "False"
    ELSE IF container.kind = "list"
    THEN IF \E k \in 1..Len(container.items) : container.items[k].val = PyStr(key)
         THEN "True" ELSE "False"
    ELSE IF container.kind = "str"
    THEN IF Find(container.str, key, 1) # 0 THEN "True" ELSE "False"
    ELSE "TypeError"

\* version.replace('^', '').replace('~', '')
strip_version(version) == RemoveAll(RemoveAll(version, "^"), "~")

\* the loop over package_json['dependencies'].items()
package_entries(members) ==
    [k \in 1..Len(members) |->
        [name |-> members[k].key,
         version |-> strip_version(members[k].val.str),
         description |-> FrontendDescription]]

\* package_json['dependencies'] and the loop over its items
dependencies_entries(deps) ==
    IF deps.kind # "dict"
    THEN [raised |-> "AttributeError", dependencies |-> <<>>]
    ELSE IF \E k \in 1..Len(deps.items) : deps.items[k].val.kind # "str"
    THEN [raised |-> "AttributeError", dependencies |-> <<>>]
    ELSE [raised |-> "", dependencies |-> package_entries(deps.items)]

\* the body of the try block once json.loads has returned package_json
package_json_entries(package_json) ==
    The({ IF has = "TypeError" THEN [raised |-> "TypeError", dependencies |-> <<>>]
          ELSE IF has = "False" THEN [raised |-> "", dependencies |-> <<>>]
          ELSE IF package_json.kind # "dict" THEN [raised |-> "TypeError", dependencies |-> <<>>]
          ELSE dependencies_entries(
                  package_json.items[CHOOSE k \in 1..Len(package_json.items) :
                                        package_json.items[k].key = DependenciesKey].val)
          : has \in {PyIn(DependenciesKey, package_json)} })

\* the package.json block: raised = "" when the block completes (a
\* JSONDecodeError is caught inside it), otherwise the exception that leaves it
package_json_dependencies(text) ==
    The({ IF ~parsed_json.ok THEN [raised |-> "", dependencies |-> <<>>]
          ELSE package_json_entries(parsed_json.val)
          : parsed_json \in {json_loads(text)} })

\* whether a line of requirements.txt is looked at: non-blank, no '#' first
line_considered(line) == Strip(line) # <<>> /\ ~StartsWith(line, <<"#">>)

\* the dependency a considered line yields, if any
line_entries(line) ==
    LET parts == Split(line, <<"=", "=">>)
    IN  IF Len(parts) = 2
        THEN <<[name |-> Strip(parts[1]), version |-> Strip(parts[2]),
                description |-> BackendDescription]>>
        ELSE <<>>

\* the loop over files_data['requirements.txt'].split('\n')
RECURSIVE lines_entries(_)
lines_entries(lines) ==
    IF lines = <<>> THEN <<>>
    ELSE (IF line_considered(Head(lines)) THEN line_entries(Head(lines)) ELSE <<>>)
         \o lines_entries(Tail(lines))

requirements_dependencies(text) == lines_entries(Split(text, <<"\n">>))

\* the package.json block without the membership test: KeyError on a missing key
package_json_block_unguarded(files_data) ==
    IF HasKey(files_data, PackageJson)
    THEN package_json_dependencies(Lookup(files_data, PackageJson))
    ELSE [raised |-> "KeyError", dependencies |-> <<>>]

\* the package.json block, run only if the key is present
package_json_block(files_data) ==
    IF HasKey(files_data, PackageJson)
    THEN package_json_dependencies(Lookup(files_data, PackageJson))
    ELSE [raised |-> "", dependencies |-> <<>>]

\* the requirements.txt block, run only if the key is present
requirements_block(files_data) ==
    IF HasKey(files_data, RequirementsTxt)
    THEN requirements_dependencies(Lookup(files_data, RequirementsTxt))
    ELSE <<>>

\* extract_dependencies walking the keys of files_data in their order, so that
\* the block of the first key contributes first
extract_dependencies_key_order(files_data) ==
    The({ IF pkg.raised # "" THEN [raised |-> pkg.raised, dependencies |-> <<>>]
          ELSE [raised |-> "",
                dependencies |->
                    IF files_data # <<>> /\ files_data[1].name = RequirementsTxt
                    THEN requirements_block(files_data) \o pkg.dependencies
                    ELSE pkg.dependencies \o requirements_block(files_data)]
          : pkg \in {package_json_block(files_data)} })

\* extract_dependencies(files_data): raised # "" when an exception leaves it
extract_dependencies(files_data) ==
    The({ IF pkg.raised # "" THEN [raised |-> pkg.raised, dependencies |-> <<>>]
          ELSE [raised |-> "",
                dependencies |-> pkg.dependencies \o requirements_block(files_data)]
          : pkg \in {package_json_block(files_data)} })

\* ------------------------------------------------------------------------
\* summarize_repo
\* ------------------------------------------------------------------------

\* values returned by summarize_repo and analyze_github_repo
Unset == [kind |-> "unset", summary |-> "", dependencies |-> <<>>, error |-> ""]
ResultNone == [kind |-> "None", summary |-> "", dependencies |-> <<>>, error |-> ""]
EmptyString == [kind |-> "str", summary |-> "", dependencies |-> <<>>, error |-> ""]
ErrorString(e) == [kind |-> "error", summary |-> "", dependencies |-> <<>>, error |-> e]
Raised(e) == [kind |-> "raised", summary |-> "", dependencies |-> <<>>, error |-> e]
JsonString(output) ==
    [kind |-> "json", summary |-> output.summary,
     dependencies |-> output.dependencies, error |-> ""]

\* repo_analysis.json: absent, or holding one {summary, dependencies} object
NoFile == [exists |-> FALSE, summary |-> "", dependencies |-> <<>>]

\* the file opened in exclusive-creation mode: an existing file is kept
write_output_exclusive(file, output) ==
    IF file.exists THEN file
    ELSE [exists |-> TRUE, summary |-> output.summary, dependencies |-> output.dependencies]

\* open(output_file, 'w') and json.dump(output, f): the old content is replaced
write_output(file, output) ==
    [exists |-> TRUE, summary |-> output.summary, dependencies |-> output.dependencies]

\* what model.generate_content(prompt) can do: return a response object with
\* a text, or raise (network, authentication, quota)
NoCall == [outcome |-> "nocall", text |-> ""]
LlmResponses ==
    {[outcome |-> "text", text |-> "summary A"],
     [outcome |-> "text", text |-> "summary B"],
     [outcome |-> "raise", text |-> "quota exceeded"]}

\* summarize_repo without its except clause: the exception leaves the function
summarize_reraise(e, file) ==
    [ret |-> Unset, raised |-> e, file |-> file]

\* the except clause of summarize_repo
summarize_except(e, file) ==
    [ret |-> ErrorString(e), raised |-> "", file |-> file]

\* summarize_repo(files_data), given the response the LLM call will produce
\* and the current output file: ret is the returned value, raised the
\* exception that leaves the function, file the output file afterwards, llm
\* the LLM call made (NoCall if none)
summarize_repo(files_data, response, file) ==
    The({ IF deps_json.raised # ""
          THEN summarize_except(deps_json.raised, file) @@ [llm |-> NoCall]
          ELSE IF response.outcome = "raise"
          THEN summarize_except(response.text, file) @@ [llm |-> response]
          ELSE IF response.outcome = "text"
          THEN LET output == [summary |-> response.text,
                              dependencies |-> deps_json.dependencies]
               IN  [ret |-> JsonString(output), raised |-> "",
                    file |-> write_output(file, output), llm |-> response]
          ELSE [ret |-> EmptyString, raised |-> "", file |-> file, llm |-> response]
          : deps_json \in {extract_dependencies(files_data)} })

\* ------------------------------------------------------------------------
\* The repository host: two repositories, each a tree of directory listings
\* ------------------------------------------------------------------------
Entry(name, path, type) ==
    [name |-> name, path |-> path, type |-> type, download_url |-> path]

\* foo/bar
TreeA ==
    ("" :> << Entry(<<"R", "E", "A", "D", "M", "E", ".", "m", "d">>, "README.md", "file"),  \* README.md
              Entry(<<"s", "r", "c">>, "src", "dir"),  \* src
              Entry(<<"w", "e", "b">>, "web", "dir"),  \* web
              Entry(<<"d", "o", "c", "s">>, "docs", "dir"),  \* docs
              Entry(<<"L", "I", "C", "E", "N", "S", "E">>, "LICENSE", "file") >>)  \* LICENSE
    @@ ("src" :> << Entry(<<"a", "p", "p", ".", "p", "y">>, "src/app.py", "file"),  \* app.py
                    Entry(<<"v", "e", "n", "d", "o", "r">>, "src/vendor", "submodule"),  \* vendor
                    Entry(<<"l", "i", "b">>, "src/lib", "dir") >>)  \* lib
    @@ ("src/lib" :> << Entry(<<"r", "e", "q", "u", "i", "r", "e", "m", "e", "n", "t", "s", ".", "t", "x", "t">>, "src/lib/requirements.txt", "file"),  \* requirements.txt
                        Entry(<<"i", "m", "a", "g", "e", ".", "p", "n", "g">>, "src/lib/image.png", "file") >>)  \* image.png
    @@ ("web" :> << Entry(<<"p", "a", "c", "k", "a", "g", "e", ".", "j", "s", "o", "n">>, "web/package.json", "file") >>)  \* package.json
    @@ ("docs" :> << >>)

\* foo/baz
TreeB ==
    ("" :> << Entry(<<"p", "k", "g">>, "pkg", "dir"),  \* pkg
              Entry(<<"r", "e", "q", "u", "i", "r", "e", "m", "e", "n", "t", "s", ".", "t", "x", "t">>, "requirements.txt", "file") >>)  \* requirements.txt
    @@ ("pkg" :> << Entry(<<"p", "a", "c", "k", "a", "g", "e", ".", "j", "s", "o", "n">>, "pkg/package.json", "file"),  \* package.json
                    Entry(<<"r", "e", "q", "u", "i", "r", "e", "m", "e", "n", "t", "s", ".", "t", "x", "t">>, "pkg/requirements.txt", "file") >>)  \* requirements.txt

\* a repository the host does not know: every listing is refused
NoTree == [p \in {} |-> <<>>]

Repository(owner, repo) ==
    IF owner = <<"f", "o", "o">> /\ repo = <<"b", "a", "r">> THEN TreeA  \* foo  bar
    ELSE IF owner = <<"f", "o", "o">> /\ repo = <<"b", "a", "z">> THEN TreeB  \* foo  baz
    ELSE NoTree

\* ------------------------------------------------------------------------
\* get_repo_contents, scan_repo
\* ------------------------------------------------------------------------

\* the status of GET /repos/{owner}/{repo}/contents/{path}; `failed` is the
\* set of paths whose listing request does not succeed in this scan
listing_status(owner, repo, path, failed) ==
    IF path \in DOMAIN Repository(owner, repo) /\ path \notin failed THEN 200 ELSE 404

\* get_repo_contents without the status check: the body is used whatever the status
get_repo_contents_any_status(owner, repo, path, failed) ==
    IF path \in DOMAIN Repository(owner, repo) THEN Repository(owner, repo)[path] ELSE <<>>

\* get_repo_contents(owner, repo, path)
get_repo_contents(owner, repo, path, failed) ==
    IF listing_status(owner, repo, path, failed) = 200
    THEN Repository(owner, repo)[path]
    ELSE <<>>

RECURSIVE scan_directory(_, _, _, _)
RECURSIVE scan_items(_, _, _, _)

\* the for loop of scan_directory over the items of one listing
scan_items(owner, repo, items, failed) ==
    IF items = <<>> THEN <<>>
    ELSE LET item == Head(items)
             found == IF item.type = "file" THEN <<item>>
                      ELSE IF item.type = "dir"
                      THEN scan_directory(owner, repo, item.path, failed)
                      ELSE <<>>
         IN  found \o scan_items(owner, repo, Tail(items), failed)

\* scan_directory(path)
scan_directory(owner, repo, path, failed) ==
    LET items == get_repo_contents(owner, repo, path, failed)
    IN  IF items = <<>> THEN <<>> ELSE scan_items(owner, repo, items, failed)

\* scan_repo(owner, repo)
scan_repo(owner, repo, failed) == scan_directory(owner, repo, "", failed)

RECURSIVE listing_requests(_, _, _, _)
RECURSIVE listing_requests_items(_, _, _, _)

\* the number of directory-listing requests the loop over `items` issues
listing_requests_items(owner, repo, items, failed) ==
    IF items = <<>> THEN 0
    ELSE (IF Head(items).type = "dir"
          THEN listing_requests(owner, repo, Head(items).path, failed) ELSE 0)
         + listing_requests_items(owner, repo, Tail(items), failed)

\* the number of directory-listing requests scan_directory(path) issues
listing_requests(owner, repo, path, failed) ==
    1 + listing_requests_items(owner, repo,
                               get_repo_contents(owner, repo, path, failed), failed)

\* ------------------------------------------------------------------------
\* extract_relevant_files, get_file_content
\* ------------------------------------------------------------------------
RelevantSuffixes ==
    {<<"R", "E", "A", "D", "M", "E", ".", "m", "d">>, <<".", "p", "y">>, <<".", "j", "s">>, <<".", "j", "a", "v", "a">>, <<"p", "a", "c", "k", "a", "g", "e", ".", "j", "s", "o", "n">>,  \* README.md  .py  .js  .java  package.json
     <<"r", "e", "q", "u", "i", "r", "e", "m", "e", "n", "t", "s", ".", "t", "x", "t">>, <<"D", "o", "c", "k", "e", "r", "f", "i", "l", "e">>}  \* requirements.txt  Dockerfile

extract_relevant_files(repo_data) ==
    SelectSeq(repo_data, LAMBDA file : \E ext \in RelevantSuffixes : EndsWith(file.name, ext))

\* get_file_content(url), given the response to the request
get_file_content(response) ==
    IF response.status_code = 200 THEN response.text ELSE <<>>

\* ------------------------------------------------------------------------
\* Inputs
\* ------------------------------------------------------------------------
MaxRuns == 2

\* URLs given to analyze_github_repo
RunUrls ==
    {<<"h", "t", "t", "p", "s", ":", "/", "/", "g", "i", "t", "h", "u", "b", ".", "c", "o", "m", "/", "f", "o", "o", "/", "b", "a", "r", ".", "g", "i", "t">>,  \* https://github.com/foo/bar.git
     <<"g", "i", "t", "@", "g", "i", "t", "h", "u", "b", ".", "c", "o", "m", ":", "f", "o", "o", "/", "b", "a", "z", ".", "g", "i", "t">>,  \* git@github.com:foo/baz.git
     <<"h", "t", "t", "p", "s", ":", "/", "/", "g", "i", "t", "h", "u", "b", ".", "c", "o", "m", "/", "f", "o", "o">>,  \* https://github.com/foo
     <<"g", "i", "t", "@", "g", "i", "t", "l", "a", "b", ".", "c", "o", "m", ":", "f", "o", "o", "/", "b", "a", "r", ".", "g", "i", "t">>,  \* git@gitlab.com:foo/bar.git
     <<"h", "t", "t", "p", "s", ":", "/", "/", "n", "o", "t", "g", "i", "t", "h", "u", "b", ".", "c", "o", "m", "/", "x", "/", "y">>}  \* https://notgithub.com/x/y

\* URLs given to parse_github_url: prefix, host, owner, "/", repository, rest
UrlPrefixes == {<<"h", "t", "t", "p", "s", ":", "/", "/">>, <<"g", "i", "t", "@">>, <<"h", "t", "t", "p", ":", "/", "/", "n", "o", "t">>, <<"s", "s", "h", ":", "/", "/", "g", "i", "t", "@">>, <<>>}  \* https://  git@  http://not  ssh://git@
UrlHosts == {<<"g", "i", "t", "h", "u", "b", ".", "c", "o", "m", "/">>, <<"g", "i", "t", "h", "u", "b", ".", "c", "o", "m", ":">>, <<"g", "i", "t", "l", "a", "b", ".", "c", "o", "m", "/">>}  \* github.com/  github.com:  gitlab.com/
UrlOwners == {<<"f", "o", "o">>, <<>>}  \* foo
UrlRepos == {<<"b", "a", "r">>, <<"n", "e", "x", "t", ".", "j", "s">>, <<".", "g", "i", "t", "h", "u", "b">>, <<>>}  \* bar  next.js  .github
UrlRests == {<<>>, <<".", "g", "i", "t">>, <<"/", "t", "r", "e", "e", "/", "m", "a", "i", "n">>, <<".", "g", "i", "t", "/", "x">>}  \* .git  /tree/main  .git/x
AllUrls ==
    {p \o h \o o \o <<"/">> \o r \o t :
        p \in UrlPrefixes, h \in UrlHosts, o \in UrlOwners, r \in UrlRepos, t \in UrlRests}

\* bodies of package.json
PkgTexts ==
    {<<"{", "\"", "d", "e", "p", "e", "n", "d", "e", "n", "c", "i", "e", "s", "\"", ":", " ", "{", "\"", "r", "\"", ":", " ", "\"", "^", "1", ".", "2", "\"", ",", " ", "\"", "e", "\"", ":", " ", "\"", "~", "4", "\"", "}", "}">>,  \* {"dependencies": {"r": "^1.2", "e": "~4"}}
     <<"{", "\"", "n", "a", "m", "e", "\"", ":", " ", "\"", "x", "\"", "}">>,  \* {"name": "x"}
     <<"{", "\"", "d", "e", "p", "e", "n", "d", "e", "n", "c", "i", "e", "s", "\"", ":", " ", "{", "\"", "a", "\"", ":", " ", "\"", "1", " ", "|", "|", " ", "^", "2", "\"", "}", "}">>,  \* {"dependencies": {"a": "1 || ^2"}}
     <<"{", "\"", "d", "e", "p", "e", "n", "d", "e", "n", "c", "i", "e", "s", "\"", ":">>,  \* {"dependencies":
     <<"n", "u", "l", "l">>,  \* null
     <<"{", "\"", "d", "e", "p", "e", "n", "d", "e", "n", "c", "i", "e", "s", "\"", ":", " ", "[", "\"", "r", "\"", "]", "}">>,  \* {"dependencies": ["r"]}
     <<"{", "\"", "d", "e", "p", "e", "n", "d", "e", "n", "c", "i", "e", "s", "\"", ":", " ", "{", "\"", "r", "\"", ":", " ", "1", "}", "}">>,  \* {"dependencies": {"r": 1}}
     <<"[", "]">>,
     <<"{", "\"", "d", "e", "p", "e", "n", "d", "e", "n", "c", "i", "e", "s", "\"", ":", " ", "{", "\"", "r", "\"", ":", " ", "\"", "1", "\"", ",", " ", "\"", "b", "\"", ":", " ", "\"", "~", "2", "\"", ",", " ", "\"", "r", "\"", ":", " ", "\"", "^", "3", "\"", "}", ",", " ", "\"", "x", "\"", ":", " ", "[", "1", ",", " ", "{", "\"", "k", "\"", ":", " ", "-", "2", "}", ",", " ", "t", "r", "u", "e", "]", "}", " ">>,  \* {"dependencies": {"r": "1", "b": "~2", "r": "^3"}, "x": [1, {"k": -2}, true]} 
     <<"{", "\"", "d", "e", "p", "e", "n", "d", "e", "n", "c", "i", "e", "s", "\"", ":", " ", "n", "u", "l", "l", "}">>}  \* {"dependencies": null}

\* bodies of requirements.txt
ReqTexts ==
    {<<"f", "=", "=", "2", ".", "0", "\n", "n", "\n", "#", " ", "c", "\n">>,  \* f==2.0\nn\n# c\n
     <<"a", "=", "=", "1", " ", ";", " ", "p", "=", "=", "3", "\n", "b", ">", "=", "2", "\n">>,  \* a==1 ; p==3\nb>=2\n
     <<" ", "g", " ", "=", "=", " ", "1", " ", "\r", "\n", "\n", " ", " ", "\n", "h", "=", "=", "=", "2">>,  \*  g == 1 \r\n\n  \nh===2
     <<" ", " ", "#", " ", "x", "=", "=", "1", "\n", "k", "=", "=", "5">>,  \*   # x==1\nk==5
     <<"a", "=", "=", "=", "=", "1", "\n", "=", "=", "\n", "#", "a", "=", "=", "1", "\n", "q", "=", "=">>}  \* a====1\n==\n#a==1\nq==

\* bodies served to a pipeline run
RunPkgTexts == {<<"{", "\"", "d", "e", "p", "e", "n", "d", "e", "n", "c", "i", "e", "s", "\"", ":", " ", "{", "\"", "r", "\"", ":", " ", "\"", "^", "1", ".", "2", "\"", ",", " ", "\"", "e", "\"", ":", " ", "\"", "~", "4", "\"", "}", "}">>, <<"n", "u", "l", "l">>}  \* {"dependencies": {"r": "^1.2", "e": "~4"}}  null
RunReqTexts == {<<"f", "=", "=", "2", ".", "0", "\n", "n", "\n", "#", " ", "c", "\n">>}  \* f==2.0\nn\n# c\n
OtherText == <<"x">>

\* content maps given to summarize_repo directly: either manifest absent or
\* present (a failed fetch leaves the empty text), in both key orders
ContentMaps ==
    LET P == {<<>>} \cup {<<[name |-> PackageJson, text |-> t]>> : t \in PkgTexts \cup {<<>>}}
        R == {<<>>} \cup {<<[name |-> RequirementsTxt, text |-> t]>> : t \in ReqTexts \cup {<<>>}}
    IN  {p \o r : p \in P, r \in R} \cup {r \o p : p \in P, r \in R}

\* the responses the raw-content host can give for a file
ContentResponses(file) ==
    {[status_code |-> 404, text |-> <<>>]} \cup
    {[status_code |-> 200, text |-> t] :
        t \in IF file.name = PackageJson THEN RunPkgTexts
              ELSE IF file.name = RequirementsTxt THEN RunReqTexts
              ELSE {OtherText}}

\* ------------------------------------------------------------------------
\* State
\* ------------------------------------------------------------------------
VARIABLES
    pc,             \* position of the caller: idle, inside analyze_github_repo, returned
    runs,           \* number of calls completed
    github_url,     \* the URL of the current call
    parsed,         \* result of parse_github_url
    failed,         \* paths whose listing request failed in this scan
    repo_data,      \* result of scan_repo
    relevant_files, \* result of extract_relevant_files
    files_content,  \* the content map
    llm,            \* the LLM call made by this run
    summary,        \* value returned by summarize_repo, or the exception leaving it
    result,         \* value returned by analyze_github_repo
    requests,       \* requests issued by this run, by kind
    out_file,       \* repo_analysis.json
    file_before     \* repo_analysis.json when the current call started

vars == <<pc, runs, github_url, parsed, failed, repo_data, relevant_files,
          files_content, llm, summary, result, requests, out_file, file_before>>

NotParsed == [ok |-> FALSE, owner |-> <<>>, repo |-> <<>>]
NoRequests == [listing |-> 0, content |-> 0, llm |-> 0]

Init ==
    /\ pc = "idle"
    /\ runs = 0
    /\ github_url = <<>>
    /\ parsed = NotParsed
    /\ failed = {}
    /\ repo_data = <<>>
    /\ relevant_files = <<>>
    /\ files_content = <<>>
    /\ llm = NoCall
    /\ summary = Unset
    /\ result = Unset
    /\ requests = NoRequests
    /\ out_file = NoFile
    /\ file_before = NoFile

\* the except clause of analyze_github_repo
analyze_except == ResultNone

\* analyze_github_repo(github_url) up to the return of parse_github_url
ParseUrl ==
    /\ pc = "idle"
    /\ runs < MaxRuns
    /\ \E url \in RunUrls :
        /\ github_url' = url
        /\ parsed' = parse_github_url(url)
        /\ IF parse_github_url(url).ok
           THEN pc' = "scan" /\ result' = Unset
           ELSE pc' = "done" /\ result' = analyze_except
    /\ file_before' = out_file
    /\ UNCHANGED <<runs, failed, repo_data, relevant_files, files_content, llm,
                   summary, requests, out_file>>

\* repo_data = scan_repo(owner, repo)
ScanRepo ==
    /\ pc = "scan"
    /\ \E f \in SUBSET (DOMAIN Repository(parsed.owner, parsed.repo)) :
        /\ failed' = f
        /\ repo_data' = scan_repo(parsed.owner, parsed.repo, f)
        /\ requests' = [requests EXCEPT
                          !.listing = listing_requests(parsed.owner, parsed.repo, "", f)]
    /\ pc' = "filter"
    /\ UNCHANGED <<runs, github_url, parsed, relevant_files, files_content, llm,
                   summary, result, out_file, file_before>>

\* relevant_files = extract_relevant_files(repo_data)
ExtractRelevantFiles ==
    /\ pc = "filter"
    /\ relevant_files' = extract_relevant_files(repo_data)
    /\ pc' = "fetch"
    /\ UNCHANGED <<runs, github_url, parsed, failed, repo_data, files_content, llm,
                   summary, result, requests, out_file, file_before>>

\* one step of the comprehension building files_content
FetchContent ==
    /\ pc = "fetch"
    /\ requests.content < Len(relevant_files)
    /\ LET file == relevant_files[requests.content + 1]
       IN  \E response \in ContentResponses(file) :
             files_content' = SetItem(files_content, file.name, get_file_content(response))
    /\ requests' = [requests EXCEPT !.content = @ + 1]
    /\ UNCHANGED <<pc, runs, github_url, parsed, failed, repo_data, relevant_files,
                   llm, summary, result, out_file, file_before>>

\* summary = summarize_repo(files_content); return summary
SummarizeRepo ==
    /\ pc = "fetch"
    /\ requests.content = Len(relevant_files)
    /\ \E response \in LlmResponses :
        \E r \in {summarize_repo(files_content, response, out_file)} :
            /\ llm' = r.llm
            /\ out_file' = r.file
            /\ requests' = [requests EXCEPT !.llm = IF r.llm = NoCall THEN 0 ELSE 1]
            /\ IF r.raised # ""
               THEN summary' = Raised(r.raised) /\ result' = analyze_except
               ELSE summary' = r.ret /\ result' = r.ret
    /\ pc' = "done"
    /\ UNCHANGED <<runs, github_url, parsed, failed, repo_data, relevant_files,
                   files_content, file_before>>

\* a direct call of parse_github_url(url)
CallParse ==
    /\ pc = "idle"
    /\ runs < MaxRuns
    /\ \E url \in AllUrls :
        /\ github_url' = url
        /\ parsed' = parse_github_url(url)
    /\ pc' = "returned_parse"
    /\ file_before' = out_file
    /\ UNCHANGED <<runs, failed, repo_data, relevant_files, files_content, llm,
                   summary, result, requests, out_file>>

\* a direct call of summarize_repo(files_data)
CallSummarize ==
    /\ pc = "idle"
    /\ runs < MaxRuns
    /\ \E files_data \in ContentMaps, response \in LlmResponses :
        \E r \in {summarize_repo(files_data, response, out_file)} :
            /\ files_content' = files_data
            /\ llm' = r.llm
            /\ out_file' = r.file
            /\ requests' = [requests EXCEPT !.llm = IF r.llm = NoCall THEN 0 ELSE 1]
            /\ summary' = IF r.raised # "" THEN Raised(r.raised) ELSE r.ret
    /\ pc' = "returned_summarize"
    /\ file_before' = out_file
    /\ UNCHANGED <<runs, github_url, parsed, failed, repo_data, relevant_files, result>>

\* the call is over; the caller may start another one
Return ==
    /\ pc \in {"done", "returned_parse", "returned_summarize"}
    /\ pc' = "idle"
    /\ runs' = runs + 1
    /\ github_url' = <<>>
    /\ parsed' = NotParsed
    /\ failed' = {}
    /\ repo_data' = <<>>
    /\ relevant_files' = <<>>
    /\ files_content' = <<>>
    /\ llm' = NoCall
    /\ summary' = Unset
    /\ result' = Unset
    /\ requests' = NoRequests
    /\ file_before' = out_file
    /\ UNCHANGED out_file

\* runs of analyze_github_repo
Next ==
    \/ ParseUrl
    \/ ScanRepo
    \/ ExtractRelevantFiles
    \/ FetchContent
    \/ SummarizeRepo
    \/ Return

Spec == Init /\ [][Next]_vars

\* direct calls of parse_github_url and summarize_repo
NextFn ==
    \/ CallParse
    \/ CallSummarize
    \/ Return

SpecFn == Init /\ [][NextFn]_vars

\* ------------------------------------------------------------------------
\* Properties
\* ------------------------------------------------------------------------

\* the file entries of each repository in depth-first listing order
PreorderA ==
    <<"README.md", "src/app.py", "src/lib/requirements.txt", "src/lib/image.png",
      "web/package.json", "LICENSE">>
PreorderB == <<"pkg/package.json", "pkg/requirements.txt", "requirements.txt">>
Preorder(tree) == IF tree = TreeA THEN PreorderA ELSE IF tree = TreeB THEN PreorderB ELSE <<>>

AllEntries(tree) == UNION {{tree[d][k] : k \in 1..Len(tree[d])} : d \in DOMAIN tree}

\* the directory whose listing holds the entry at `path`
ParentDir(tree, path) ==
    CHOOSE d \in DOMAIN tree : \E k \in 1..Len(tree[d]) : tree[d][k].path = path

\* directory d and every directory above it are listed successfully
RECURSIVE ListedFromRoot(_, _, _)
ListedFromRoot(tree, d, f) ==
    /\ d \in DOMAIN tree
    /\ d \notin f
    /\ d = "" \/ ListedFromRoot(tree, ParentDir(tree, d), f)

ScannedTree == Repository(parsed.owner, parsed.repo)

\* C1: after scan_repo, the returned list is exactly the file entries of the
\* directories reachable from the root through successfully listed
\* directories, each once, in depth-first listing order, with no directory
\* entry; files outside a failed sub-path are all present.
C1_ScanReturnsReachableFiles ==
    (pc \in {"filter", "fetch", "done"} /\ parsed.ok) =>
        /\ [k \in 1..Len(repo_data) |-> repo_data[k].path]
             = SelectSeq(Preorder(ScannedTree),
                         LAMBDA p : ListedFromRoot(ScannedTree, ParentDir(ScannedTree, p), failed))
        /\ \A k \in 1..Len(repo_data) :
             repo_data[k].type = "file" /\ repo_data[k] \in AllEntries(ScannedTree)

\* a scan of foo/bar in which the listing of src failed and its sibling web
\* was listed: the files of web are returned, those under src are not
C1_Witness ==
    /\ pc = "filter"
    /\ ScannedTree = TreeA
    /\ "src" \in failed /\ "" \notin failed /\ "web" \notin failed
    /\ \E k \in 1..Len(repo_data) : repo_data[k].path = "web/package.json"
    /\ \A k \in 1..Len(repo_data) : repo_data[k].path # "src/app.py"

\* the text after a prefix up to, not including, the first "/" (or the end)
Segment(s, from) == SubSeq(s, from, from + RunLen(s, from, {"/"}) - 1)

\* a repository segment without its trailing ".git"
WithoutDotGit(seg) ==
    IF EndsWith(seg, <<".", "g", "i", "t">>) THEN SubSeq(seg, 1, Len(seg) - 4) ELSE seg  \* .git

HttpsPrefix == <<"h", "t", "t", "p", "s", ":", "/", "/", "g", "i", "t", "h", "u", "b", ".", "c", "o", "m", "/">>  \* https://github.com/
SshPrefix == <<"g", "i", "t", "@", "g", "i", "t", "h", "u", "b", ".", "c", "o", "m", ":">>  \* git@github.com:

\* owner and repository segments of a URL that starts with `prefix`
OwnerSegment(url, prefix) == Segment(url, Len(prefix) + 1)
RepoSegment(url, prefix) == Segment(url, Len(prefix) + Len(OwnerSegment(url, prefix)) + 2)

\* https://github.com/<owner>/<repo>[.git][/...]
IsHttpsForm(url) ==
    /\ StartsWith(url, HttpsPrefix)
    /\ OwnerSegment(url, HttpsPrefix) # <<>>
    /\ Len(url) > Len(HttpsPrefix) + Len(OwnerSegment(url, HttpsPrefix))
    /\ WithoutDotGit(RepoSegment(url, HttpsPrefix)) # <<>>

\* git@github.com:<owner>/<repo>[.git]
IsSshForm(url) ==
    /\ StartsWith(url, SshPrefix)
    /\ OwnerSegment(url, SshPrefix) # <<>>
    /\ Len(url) > Len(SshPrefix) + Len(OwnerSegment(url, SshPrefix))
    /\ WithoutDotGit(RepoSegment(url, SshPrefix)) # <<>>
    /\ Len(url) = Len(SshPrefix) + Len(OwnerSegment(url, SshPrefix)) + 1
                    + Len(RepoSegment(url, SshPrefix))

\* C2: a run of analyze_github_repo on a URL that has neither the HTTPS nor
\* the SSH GitHub form fails in parse_github_url and ends at once: it returns
\* None, issues no listing, content or LLM request and leaves the output
\* file as it was.
C2_InvalidUrlAborts ==
    (pc \notin {"idle"} /\ ~IsHttpsForm(github_url) /\ ~IsSshForm(github_url)) =>
        /\ pc = "done"
        /\ ~parsed.ok
        /\ result = ResultNone
        /\ requests = NoRequests
        /\ out_file = file_before

\* C3: for a URL of the HTTPS or the SSH form, parse_github_url returns the
\* whole owner segment and the whole repository segment less a trailing
\* ".git", dots inside the repository name included.
C3_ParseReturnsOwnerAndRepo ==
    (pc = "returned_parse" /\ (IsHttpsForm(github_url) \/ IsSshForm(github_url))) =>
        LET prefix == IF IsSshForm(github_url) THEN SshPrefix ELSE HttpsPrefix
        IN  /\ parsed.ok
            /\ parsed.owner = OwnerSegment(github_url, prefix)
            /\ parsed.repo = WithoutDotGit(RepoSegment(github_url, prefix))

\* C4: when the LLM call of a run raises, summarize_repo returns the error
\* string instead of raising and analyze_github_repo returns that string,
\* not None.
C4_LlmFailureReturnsErrorString ==
    (pc = "done" /\ llm.outcome = "raise") =>
        /\ summary.kind = "error"
        /\ summary.error = llm.text
        /\ result = summary
        /\ result # ResultNone

\* a finished run whose LLM call raised
C4_Witness == pc = "done" /\ llm.outcome = "raise" /\ requests.llm = 1

\* the AnalysisResult of the current run, as the output file would hold it
ThisRunResult ==
    [exists |-> TRUE, summary |-> llm.text,
     dependencies |-> extract_dependencies(files_content).dependencies]

\* C5 as stated: once any run of the summarizer has finished, the output
\* file holds that run's {summary, dependencies}; stated for the runs that
\* get as far as the LLM call.
C5_EveryRunOverwrites ==
    (pc = "returned_summarize" /\ llm # NoCall) => out_file = ThisRunResult

\* C5 amended: a finished run whose LLM call returned a response text leaves
\* the file holding exactly that run's {summary, dependencies}; any other
\* finished run leaves the file as it was before the run.
C5_SuccessfulRunOverwrites ==
    pc = "returned_summarize" =>
        IF llm.outcome = "text" THEN out_file = ThisRunResult
        ELSE out_file = file_before

\* a finished run that replaced the different result of an earlier run
C5_Witness ==
    /\ pc = "returned_summarize"
    /\ llm.outcome = "text"
    /\ file_before.exists
    /\ file_before # out_file
    /\ out_file = ThisRunResult

\* C6 as stated: after summarize_repo has run on an empty content map the
\* output file exists, with a summary and an empty dependency list.
C6_EmptyMapWritesFile ==
    (pc = "returned_summarize" /\ files_content = <<>>) =>
        /\ summary.kind # "raised"
        /\ out_file.exists
        /\ out_file.dependencies = <<>>

\* C6 amended: summarize_repo on an empty content map does not raise and
\* makes the LLM call; if the call returns a response text the file is
\* written with that text and an empty dependency list; otherwise nothing is
\* written, and an error string is returned only when the call raised.
C6_EmptyMapDegrades ==
    (pc = "returned_summarize" /\ files_content = <<>>) =>
        /\ summary.kind # "raised"
        /\ llm # NoCall
        /\ llm.outcome = "text" =>
             out_file = [exists |-> TRUE, summary |-> llm.text, dependencies |-> <<>>]
        /\ llm.outcome # "text" => out_file = file_before
        /\ summary.kind = "error" <=> llm.outcome = "raise"

\* summarize_repo has run on an empty content map and written the file
C6_Witness ==
    /\ pc = "returned_summarize"
    /\ files_content = <<>>
    /\ llm.outcome = "text"
    /\ out_file.exists /\ out_file.summary = llm.text /\ out_file.dependencies = <<>>

Reverse(seq) == [k \in 1..Len(seq) |-> seq[Len(seq) + 1 - k]]

Names(deps) == [k \in 1..Len(deps) |-> deps[k].name]

\* the names occur in the text from left to right, in the order of the list
InTextOrder(names, text) ==
    \A k \in 1..(Len(names) - 1) : Find(text, names[k], 1) < Find(text, names[k + 1], 1)

\* C7: the dependency list written to the output file is the package.json
\* entries in declaration order followed by the requirements.txt entries in
\* line order; no requirements.txt entry precedes a package.json entry; the
\* order of the keys of the content map makes no difference.
C7_PackageJsonThenRequirements ==
    (pc = "returned_summarize" /\ llm.outcome = "text") =>
        LET d == out_file.dependencies
            front == SelectSeq(d, LAMBDA x : x.description = FrontendDescription)
            back == SelectSeq(d, LAMBDA x : x.description = BackendDescription)
        IN  /\ summary.dependencies = d
            /\ d = front \o back
            /\ front = package_json_block(files_content).dependencies
            /\ back = requirements_block(files_content)
            /\ front # <<>> =>
                 InTextOrder([k \in 1..Len(front) |-> <<"\"">> \o front[k].name \o <<"\"">>],
                             Lookup(files_content, PackageJson))
            /\ back # <<>> =>
                 InTextOrder(Names(back), Lookup(files_content, RequirementsTxt))
            /\ extract_dependencies(Reverse(files_content)).dependencies = d

\* a written list holding entries of both manifests, from a content map
\* whose first key is requirements.txt
C7_Witness ==
    /\ pc = "returned_summarize"
    /\ llm.outcome = "text"
    /\ Len(files_content) = 2
    /\ files_content[1].name = RequirementsTxt
    /\ Len(out_file.dependencies) >= 3
    /\ out_file.dependencies[1].description = FrontendDescription
    /\ out_file.dependencies[2].description = FrontendDescription
    /\ out_file.dependencies[Len(out_file.dependencies)].description = BackendDescription

\* the dependencies C8 states for a requirements.txt text: one for each line
\* that is non-blank, does not start with '#' and contains "==", named by the
\* text before the first "==" with the text after it as version, trimmed
RECURSIVE PinnedLines(_)
PinnedLines(lines) ==
    IF lines = <<>> THEN <<>>
    ELSE LET line == Head(lines)
             at == Find(line, <<"=", "=">>, 1)
         IN  (IF Strip(line) # <<>> /\ ~StartsWith(line, <<"#">>) /\ at # 0
              THEN <<[name |-> Strip(SubSeq(line, 1, at - 1)),
                      version |-> Strip(SubSeq(line, at + 2, Len(line))),
                      description |-> BackendDescription]>>
              ELSE <<>>)
             \o PinnedLines(Tail(lines))

\* C8: the requirements.txt entries written are exactly one per non-blank,
\* non-comment line that contains "==", with the trimmed text before and
\* after it as name and version, and nothing for any other line.
C8_OneDependencyPerPinnedLine ==
    (pc = "returned_summarize" /\ llm.outcome = "text"
        /\ HasKey(files_content, RequirementsTxt)) =>
        SelectSeq(out_file.dependencies, LAMBDA x : x.description = BackendDescription)
          = PinnedLines(Split(Lookup(files_content, RequirementsTxt), <<"\n">>))

\* a version string without its leading '^' or '~'
WithoutLeadingRange(version) ==
    IF version # <<>> /\ Head(version) \in {"^", "~"} THEN Tail(version) ELSE version

\* package.json parses to an object whose `dependencies`, if present, maps
\* names to version strings
WellFormedPackageJson(text) ==
    LET parsed_json == json_loads(text)
    IN  /\ parsed_json.ok
        /\ parsed_json.val.kind = "dict"
        /\ \A k \in 1..Len(parsed_json.val.items) :
             parsed_json.val.items[k].key = DependenciesKey =>
                /\ parsed_json.val.items[k].val.kind = "dict"
                /\ \A j \in 1..Len(parsed_json.val.items[k].val.items) :
                     parsed_json.val.items[k].val.items[j].val.kind = "str"

\* the `dependencies` members of a well-formed package.json
DeclaredDependencies(text) ==
    LET top == json_loads(text).val.items
        hits == {k \in 1..Len(top) : top[k].key = DependenciesKey}
    IN  IF hits = {} THEN <<>> ELSE top[CHOOSE k \in hits : TRUE].val.items

\* C9: for a well-formed package.json the entries written are one per
\* declared dependency, with the name unchanged, the frontend description,
\* and the declared version less a leading '^' or '~' and otherwise unchanged.
C9_OnlyLeadingRangeStripped ==
    (pc = "returned_summarize" /\ llm.outcome = "text"
        /\ HasKey(files_content, PackageJson)
        /\ WellFormedPackageJson(Lookup(files_content, PackageJson))) =>
        SelectSeq(out_file.dependencies, LAMBDA x : x.description = FrontendDescription)
          = LET declared == DeclaredDependencies(Lookup(files_content, PackageJson))
            IN  [k \in 1..Len(declared) |->
                    [name |-> declared[k].key,
                     version |-> WithoutLeadingRange(declared[k].val.str),
                     description |-> FrontendDescription]]

\* C10: with a malformed package.json (invalid JSON, or JSON that is not an
\* object with a name-to-version-string `dependencies` mapping)
\* extract_dependencies does not raise, the LLM call is made, and when it
\* returns a response text the file is written with the requirements.txt
\* entries alone.
C10_MalformedPackageJsonRecovered ==
    (pc = "returned_summarize" /\ HasKey(files_content, PackageJson)
        /\ ~(/\ WellFormedPackageJson(Lookup(files_content, PackageJson))
             /\ DeclaredDependencies(Lookup(files_content, PackageJson)) # <<>>)) =>
        /\ summary.kind # "raised"
        /\ llm # NoCall
        /\ llm.outcome = "text" =>
             out_file = [exists |-> TRUE, summary |-> llm.text,
                         dependencies |-> requirements_block(files_content)]

====
